---- MODULE Spec2Model ----
(***************************************************************************)
(* Issue lifecycle state machines of the repository.                       *)
(*                                                                         *)
(*   SpecSM   azure/status-manager.py : IssueStateManager, the file-backed *)
(*            store with validated transitions (transition_status); calls  *)
(*            are coroutines that suspend at every file operation.         *)
(*   SpecApp  azure/app-simple.py : the webhook endpoint, the in-memory    *)
(*            SimpleStatusManager and the background runs of               *)
(*            process_issue_automation.                                    *)
(*   SpecRun  the same process with one delivery already behind it.        *)
(*   SpecStatus     SpecSM with the read endpoint GET /status.             *)
(*   SpecValidator  _is_valid_transition on its own, on every pair of      *)
(*            statuses.                                                    *)
(*   SpecHook integrations/github-webhook-handler.py : signature check,    *)
(*            event filter and background tasks of POST /webhook/github.   *)
(*   SpecIntake     SpecRun with payloads that lack the issue number, and  *)
(*            weak fairness of every run's steps.                          *)
(*   SpecStore      save_state, load_state and transition_status of one    *)
(*            key with their timestamps, one call at a time.               *)
(*   SpecLabels     GitHubStatusManager.update_issue_labels on the labels  *)
(*            of one issue, with every answer of GitHub.                   *)
(*   SpecUpdate     SpecSM with POST /status/update bodies that the        *)
(*            endpoint refuses.                                            *)
(***************************************************************************)
EXTENDS Integers, Sequences, FiniteSets, TLC

\* ------------------------------------------------------------------ bounds
\* transition_status calls started in one behaviour
MaxCalls == 2
\* webhook deliveries received in one behaviour
MaxDeliveries == 2

\* ------------------------------------------------- status-manager.py: types

\* class IssueStatus(Enum) of status-manager.py: eleven members
IssueStatus ==
    {"NEW", "ANALYZING", "ANALYZED", "APPROVED", "IN_PROGRESS", "BLOCKED",
     "REVIEW_NEEDED", "COMPLETED", "MERGED", "CLOSED", "REJECTED"}

\* the dict literal of _is_valid_transition
valid_transitions ==
    [s \in IssueStatus |->
        CASE s = "NEW"           -> {"ANALYZING", "REJECTED"}
          [] s = "ANALYZING"     -> {"ANALYZED", "REJECTED"}
          [] s = "ANALYZED"      -> {"APPROVED", "REVIEW_NEEDED", "REJECTED"}
          [] s = "APPROVED"      -> {"IN_PROGRESS", "BLOCKED"}
          [] s = "IN_PROGRESS"   -> {"COMPLETED", "BLOCKED", "REVIEW_NEEDED"}
          [] s = "BLOCKED"       -> {"IN_PROGRESS", "REVIEW_NEEDED", "REJECTED"}
          [] s = "REVIEW_NEEDED" -> {"APPROVED", "REJECTED", "IN_PROGRESS"}
          [] s = "COMPLETED"     -> {"MERGED", "CLOSED"}
          [] s = "MERGED"        -> {}
          [] s = "CLOSED"        -> {}
          [] s = "REJECTED"      -> {}]

\* mutant: the validator also accepts a transition of a status to itself
is_valid_transition_selfloop(from_status, to_status) ==
    \/ from_status = to_status
    \/ /\ from_status \in DOMAIN valid_transitions
       /\ to_status \in valid_transitions[from_status]

\* mutant: the validator lets a record in a final status be worked on again
is_valid_transition_reopen(from_status, to_status) ==
    \/ from_status \in {"MERGED", "CLOSED", "REJECTED"} /\ to_status = "IN_PROGRESS"
    \/ /\ from_status \in DOMAIN valid_transitions
       /\ to_status \in valid_transitions[from_status]

\* valid_transitions.get(from_status, []): a from_status that is no key gives []
is_valid_transition(from_status, to_status) ==
    /\ from_status \in DOMAIN valid_transitions
    /\ to_status \in valid_transitions[from_status]

\* ---------------------------------------------------------------- kwargs
\* **kwargs of transition_status.  keys: the keyword names given; the other
\* fields hold the value of each given key.  json: every value is one that
\* json.dumps accepts (always so for the "extra" object of POST
\* /status/update); history_is_list: the status_history value is a list.
NoKw ==
    [keys |-> {}, status |-> "", assigned_agent |-> "", created_at |-> "",
     error_message |-> "", status_history |-> <<>>,
     history_is_list |-> TRUE, json |-> TRUE]

\* "note" is no field of IssueState: hasattr is False for it
KwAgent == [NoKw EXCEPT !.keys = {"assigned_agent", "note"}, !.assigned_agent = "debugger"]
\* created_at and error_message are fields of IssueState like any other
KwExtra ==
    [NoKw EXCEPT !.keys = {"created_at", "error_message"},
                 !.created_at = "extra", !.error_message = "error"]
KwHistoryEmpty == [NoKw EXCEPT !.keys = {"status_history"}]
KwHistoryNoList == [NoKw EXCEPT !.keys = {"status_history"}, !.history_is_list = FALSE]
\* a status given as a JSON string: a str, no IssueStatus member
KwStatusStr == [NoKw EXCEPT !.keys = {"status"}, !.status = "str:merged"]
\* a status given as an IssueStatus member by a Python caller: not JSON
KwStatusEnum == [NoKw EXCEPT !.keys = {"status"}, !.status = "MERGED", !.json = FALSE]

Kwargs ==
    {NoKw, KwAgent, KwExtra, KwHistoryEmpty, KwHistoryNoList, KwStatusStr, KwStatusEnum}

\* ------------------------------------------------------------ IssueState
\* repository names as character sequences
RepoSlash == <<"o", "/", "r">>
RepoUnder == <<"o", "_", "r">>
Repositories == {RepoSlash, RepoUnder}
IssueNumbers == {1}

\* the dataclass fields that hasattr(current_state, key) finds
IssueStateFields ==
    {"issue_number", "repository", "status", "assigned_agent", "created_at",
     "error_message", "status_history"}

\* IssueState(issue_number=..., repository=..., status=IssueStatus.NEW);
\* __post_init__ sets created_at when it is empty
NewIssueState(repository, issue_number) ==
    [issue_number |-> issue_number, repository |-> repository, status |-> "NEW",
     assigned_agent |-> "", created_at |-> "created", error_message |-> "",
     status_history |-> <<>>]

\* repository.replace("/", "_")
safe_repo(repository) ==
    [i \in DOMAIN repository |-> IF repository[i] = "/" THEN "_" ELSE repository[i]]

\* f"{storage_path}/{safe_repo}_issue_{issue_number}.json"
get_state_file(repository, issue_number) == <<safe_repo(repository), issue_number>>

StateFiles == {get_state_file(r, n) : r \in Repositories, n \in IssueNumbers}

\* a state file: absent, empty (opened for writing, nothing flushed yet, or
\* left empty by a failed write) or the JSON of an IssueState
NoFile == [kind |-> "none", data |-> NewIssueState(<<>>, 0)]
EmptyFile == [kind |-> "empty", data |-> NewIssueState(<<>>, 0)]
JsonFile(state) == [kind |-> "json", data |-> state]

\* the for loop over kwargs.items(): setattr for every key that is a field
ApplyKwargs(state, kw) ==
    [state EXCEPT
        !.status = IF "status" \in kw.keys \cap IssueStateFields THEN kw.status ELSE @,
        !.assigned_agent =
            IF "assigned_agent" \in kw.keys \cap IssueStateFields
            THEN kw.assigned_agent ELSE @,
        !.created_at =
            IF "created_at" \in kw.keys \cap IssueStateFields THEN kw.created_at ELSE @,
        !.error_message =
            IF "error_message" \in kw.keys \cap IssueStateFields
            THEN kw.error_message ELSE @,
        !.status_history =
            IF "status_history" \in kw.keys \cap IssueStateFields
            THEN kw.status_history ELSE @]

HistoryEntry(old_status, new_status, kw) ==
    [from_status |-> old_status, to_status |-> new_status, details |-> kw]

\* status_history.append(...) raises when kwargs replaced the list by a non-list
AppendRaises(kw) == "status_history" \in kw.keys /\ ~kw.history_is_list

\* current_state after lines 249-265 of transition_status
Transitioned(state, new_status, kw) ==
    LET updated == ApplyKwargs([state EXCEPT !.status = new_status], kw)
    IN  [updated EXCEPT !.status_history =
            Append(@, HistoryEntry(state.status, new_status, kw))]

\* asdict(issue_state) of save_state recurses without end and raises when
\* kwargs gave status_history a list: the entry appended to that list holds
\* kwargs as its details, and kwargs holds the list
AsdictRaises(kw) == "status_history" \in kw.keys /\ kw.history_is_list

\* issue_state.status.value of save_state: only an IssueStatus member has .value
HasValue(status) == status \in IssueStatus

\* json.dumps(state_data) of save_state raises when a value is none that JSON
\* has: the details of a history entry are the kwargs of its call
DumpsRaises(state) ==
    \E i \in DOMAIN state.status_history : ~state.status_history[i].details.json

\* ------------------------------------------------------------------ state
Callers == {"c1", "c2"}

VARIABLES
    files,      \* state file path -> file
    call,       \* caller -> the transition_status call it is in
    ncalls,     \* calls started
    returned,   \* state file path -> calls that returned a state (ghost)
    outcome,    \* how the last call to return ended (ghost)
    persisted,  \* state file path -> the last record written to it (ghost)
    \* app-simple.py
    client,     \* SimpleStatusManager.client is set (GITHUB_TOKEN is configured)
    states,     \* SimpleStatusManager.states: key -> IssueState
    run,        \* delivery -> the process_issue_automation task it scheduled
    deliveries, \* webhook deliveries received
    notice,     \* the comment post of the latest update_status and what the
                \* update returned (ghost)
    fault,      \* the collaborator that raised in the latest step (ghost)
    \* the validator on its own, the read endpoint, github-webhook-handler.py
    probe,      \* a pair of statuses and what _is_valid_transition answered for it
    response,   \* the answer to the latest HTTP request (ghost)
    webhook_secret,   \* GitHubWebhookHandler.webhook_secret
    background_tasks, \* the issue events handed to background_tasks.add_task
    requests,   \* HTTP requests received by the handler and the read endpoint
    \* save_state / load_state on their own, update_issue_labels
    now,        \* datetime.utcnow(), in ticks
    disk,       \* the state file of one key, with its timestamps
    given,      \* the IssueState last handed to save_state (ghost)
    loaded,     \* what the latest load_state returned
    labels,     \* the labels of the GitHub issue
    labelled    \* the latest update_issue_labels call and what it returned (ghost)

smvars == <<files, call, ncalls, returned, outcome, persisted>>
appvars == <<client, states, run, deliveries, notice, fault>>
storevars == <<now, disk, given, loaded, labels, labelled>>
auxvars ==
    <<probe, response, webhook_secret, background_tasks, requests,
      now, disk, given, loaded, labels, labelled>>
vars ==
    <<files, call, ncalls, returned, outcome, persisted,
      client, states, run, deliveries, notice, fault,
      probe, response, webhook_secret, background_tasks, requests,
      now, disk, given, loaded, labels, labelled>>

\* no pair was given to the validator
NoProbe == [from_status |-> "-", to_status |-> "-", answered |-> FALSE, result |-> FALSE]
\* no request was answered
NoResponse ==
    [request |-> [kind |-> "-"], code |-> 0, status |-> "-", repository |-> <<>>,
     issue_number |-> 0]
\* webhook_secret is None
NoSecret == "-"

\* ---------------------------------------------- save_state and load_state
\* ticks of the clock in one behaviour
MaxNow == 3
\* transition_status calls in one behaviour of the store on its own
MaxTransitions == 2

\* the value of each member of class IssueStatus: the string save_state stores
StatusValue ==
    [s \in IssueStatus |->
        CASE s = "NEW"           -> "new"
          [] s = "ANALYZING"     -> "analyzing"
          [] s = "ANALYZED"      -> "analyzed"
          [] s = "APPROVED"      -> "approved"
          [] s = "IN_PROGRESS"   -> "in_progress"
          [] s = "BLOCKED"       -> "blocked"
          [] s = "REVIEW_NEEDED" -> "review_needed"
          [] s = "COMPLETED"     -> "completed"
          [] s = "MERGED"        -> "merged"
          [] s = "CLOSED"        -> "closed"
          [] s = "REJECTED"      -> "rejected"]
\* IssueStatus(value): the member with that value; ValueError when there is none
HasMember(value) == \E s \in IssueStatus : StatusValue[s] = value
IssueStatusOf(value) == CHOOSE s \in IssueStatus : StatusValue[s] = value

\* created_at == "" (times are ticks from 1)
NoTime == 0
\* the fields of IssueState that a timestamp, an enumeration or a container is
\* held in; status is a member, or "str:<text>" when a str was assigned to it
StoreState(status, created_at, updated_at, status_history) ==
    [status |-> status, created_at |-> created_at, updated_at |-> updated_at,
     status_history |-> status_history]
\* __post_init__: created_at is set when it is empty, updated_at always
post_init(state, t) ==
    [state EXCEPT !.created_at = IF @ = NoTime THEN t ELSE @,
                  !.updated_at = t]

\* keyword arguments of a transition_status call: none, created_at="",
\* status="merged" (a str), and a note that is a list, a tuple or a set
StoreNoKw == [keys |-> {}, note |-> "-"]
StoreKwargs ==
    {StoreNoKw,
     [keys |-> {"created_at"}, note |-> "-"],
     [keys |-> {"status"}, note |-> "-"],
     [keys |-> {"note"}, note |-> "list"],
     [keys |-> {"note"}, note |-> "tuple"],
     [keys |-> {"note"}, note |-> "set"]}
\* json.dumps and json.loads of one history entry: a tuple comes back as a list
json_entry(entry) ==
    [entry EXCEPT !.details.note = IF @ = "tuple" THEN "list" ELSE @]
\* json.dumps raises TypeError on a set
dumps_raises(state) ==
    \E i \in DOMAIN state.status_history : state.status_history[i].details.note = "set"

NoDisk == [kind |-> "none", data |-> StoreState("-", NoTime, NoTime, <<>>)]
EmptyDisk == [kind |-> "empty", data |-> StoreState("-", NoTime, NoTime, <<>>)]
\* save_state: asdict, status.value (AttributeError on a str leaves the file as
\* it is), open for writing, json.dumps (an error leaves the file empty), write
save_state(file, state) ==
    IF state.status \notin IssueStatus
    THEN [file |-> file, ok |-> FALSE]
    ELSE IF dumps_raises(state)
    THEN [file |-> EmptyDisk, ok |-> FALSE]
    ELSE [file |-> [kind |-> "json",
                    data |-> [state EXCEPT
                                 !.status = StatusValue[@],
                                 !.status_history =
                                     [i \in DOMAIN @ |-> json_entry(@[i])]]],
          ok |-> TRUE]
\* load_state at time t: None when the file is missing, empty or holds a status
\* that is no member's value; else IssueState(**state_data)
NoLoaded == [found |-> FALSE, state |-> StoreState("-", NoTime, NoTime, <<>>)]
load_state(file, t) ==
    IF file.kind # "json" \/ ~HasMember(file.data.status)
    THEN NoLoaded
    ELSE [found |-> TRUE,
          state |-> post_init([file.data EXCEPT !.status = IssueStatusOf(@)], t)]
\* no save_state call yet
NoGiven ==
    [called |-> FALSE, state |-> StoreState("-", NoTime, NoTime, <<>>),
     saved |-> FALSE, read |-> FALSE, calls |-> 0]

\* ------------------------------------------------ update_issue_labels
\* a label: its leading emoji, whether "ai-" follows it, and the rest
Label(emoji, ai, name) == [emoji |-> emoji, ai |-> ai, name |-> name]
\* self.status_labels: every member has a label "<emoji> ai-<name>"
status_labels ==
    [s \in IssueStatus |->
        CASE s = "NEW"           -> Label("new", TRUE, "new")
          [] s = "ANALYZING"     -> Label("mag", TRUE, "analyzing")
          [] s = "ANALYZED"      -> Label("bar_chart", TRUE, "analyzed")
          [] s = "APPROVED"      -> Label("white_check_mark", TRUE, "approved")
          [] s = "IN_PROGRESS"   -> Label("rocket", TRUE, "in-progress")
          [] s = "BLOCKED"       -> Label("no_entry_sign", TRUE, "blocked")
          [] s = "REVIEW_NEEDED" -> Label("busts_in_silhouette", TRUE, "review-needed")
          [] s = "COMPLETED"     -> Label("sparkles", TRUE, "completed")
          [] s = "MERGED"        -> Label("tada", TRUE, "merged")
          [] s = "CLOSED"        -> Label("lock", TRUE, "closed")
          [] s = "REJECTED"      -> Label("x", TRUE, "rejected")]
\* label["name"].startswith(("<emoji> ai-", ...)) of line 102: eleven prefixes
AIPrefixEmojis ==
    {"new", "mag", "bar_chart", "white_check_mark", "rocket", "no_entry_sign",
     "busts_in_silhouette", "sparkles", "tada", "lock", "x"}
is_ai_label(label) == label.emoji \in AIPrefixEmojis /\ label.ai
\* a label that is no status label
LabelBug == Label("", FALSE, "bug")
\* what a request to GitHub can give: a 2xx answer, another answer, an exception
HttpResults == {"ok", "error", "raises"}
\* update_issue_labels, lines 89-125, on the issue's labels: list the labels,
\* delete the AI status labels when the list came with status 200, post the new
\* label; no answer but that of the list is looked at; True unless a request
\* raised
update_issue_labels(current, new_status, get, delete, post) ==
    LET ai_labels_to_remove == {l \in current : is_ai_label(l)}
        deleting == get = "ok" /\ ai_labels_to_remove # {}
        after_delete == IF deleting /\ delete = "ok"
                        THEN current \ ai_labels_to_remove ELSE current
    IN  IF get = "raises" \/ (deleting /\ delete = "raises")
        THEN [labels |-> current, returned |-> FALSE]
        ELSE IF post = "raises"
        THEN [labels |-> after_delete, returned |-> FALSE]
        ELSE [labels |-> IF post = "ok"
                         THEN after_delete \cup {status_labels[new_status]}
                         ELSE after_delete,
              returned |-> TRUE]
NoLabelled == [new_status |-> "-", returned |-> FALSE, calls |-> 0]
\* pc: idle, or the suspension point the coroutine is at
Idle ==
    [pc |-> "idle", repository |-> <<>>, issue_number |-> 0,
     state |-> NewIssueState(<<>>, 0)]

\* initialize_github_manager was called: github_manager is set
github_manager == TRUE
\* mutant: labels and comment are sent whatever transition_status returned
update_issue_status_always(how) ==
    [reported |-> how \notin {"invalid", "exception"},
     emitted |-> <<"update_issue_labels", "post_status_comment">>]
\* update_issue_status around its transition_status call: False when the call
\* returned None; else the label update, then the status comment (both catch
\* every exception and their results are not read), and True
update_issue_status(how) ==
    IF how \in {"invalid", "exception"}
    THEN [reported |-> FALSE, emitted |-> <<>>]
    ELSE [reported |-> TRUE,
          emitted |-> IF github_manager
                      THEN <<"update_issue_labels", "post_status_comment">> ELSE <<>>]
NoOutcome == [how |-> "-", listed |-> TRUE, reported |-> FALSE, emitted |-> <<>>]
\* caller c's call returns.  how: "invalid" and "exception" return None;
\* "unsaved" (save_state failed) and "saved" return the state.  listed: the
\* pair (status the call found, status it asked for) is in the table
Returns(c, how, from_status, to_status) ==
    /\ call' = [call EXCEPT ![c] = Idle]
    /\ outcome' = [how |-> how, listed |-> to_status \in valid_transitions[from_status],
                   reported |-> update_issue_status(how).reported,
                   emitted |-> update_issue_status(how).emitted]

LastEntry(state) == state.status_history[Len(state.status_history)]

\* --------------------------------------------------- app-simple.py: types
\* class IssueStatus(Enum) of app-simple.py: twelve members
AppIssueStatus == IssueStatus \cup {"PR_CREATED"}

AppRepository == <<"o", "/", "r">>
AppIssueNumbers == {1, 2}
\* the number of the pull request that GitHub answers with
PRNumber == 7
\* no pr_number (None)
NoPR == 0

\* key = f"{repository}_{issue_number}"
AppKey(repository, issue_number) == repository \o <<"_", issue_number>>

\* issue_data.get("number") of a payload that has no issue number: None
NoNumber == 0
AppKeys == {AppKey(AppRepository, n) : n \in AppIssueNumbers \cup {NoNumber}}

\* IssueState(issue_number=..., repository=..., status=IssueStatus.NEW), not yet
\* stored; estimated_cost and estimated_hours are set with assigned_agent and
\* left out
NewAppState(repository, issue_number) ==
    [issue_number |-> issue_number, repository |-> repository, status |-> "NEW",
     assigned_agent |-> "", confidence_score |-> 0, pr_number |-> NoPR,
     branch_name |-> "", error_message |-> "", status_history |-> <<>>]

\* key not in self.states
Absent == [NewAppState(<<>>, 0) EXCEPT !.status = "-"]

\* the keyword arguments of the update_status calls of app-simple.py
AppNoKw ==
    [keys |-> {}, assigned_agent |-> "", confidence_score |-> 0, pr_number |-> NoPR,
     branch_name |-> "", error_message |-> ""]

\* mutant: the history entry names NEW as the old status whatever the stored
\* state holds
update_status_stale(st, repository, issue_number, new_status, message, kw) ==
    LET key == AppKey(repository, issue_number)
        state == IF st[key] # Absent THEN st[key] ELSE NewAppState(repository, issue_number)
        updated ==
            [state EXCEPT
                !.status = new_status,
                !.assigned_agent = IF "assigned_agent" \in kw.keys THEN kw.assigned_agent ELSE @,
                !.confidence_score =
                    IF "confidence_score" \in kw.keys THEN kw.confidence_score ELSE @,
                !.pr_number = IF "pr_number" \in kw.keys THEN kw.pr_number ELSE @,
                !.branch_name = IF "branch_name" \in kw.keys THEN kw.branch_name ELSE @,
                !.error_message = IF "error_message" \in kw.keys THEN kw.error_message ELSE @,
                !.status_history =
                    Append(@, [from_status |-> "NEW", to_status |-> new_status,
                               message |-> message])]
    IN  [st EXCEPT ![key] = updated]

\* mutant: a keyword field that the call does not pass is set back to empty
update_status_resets(st, repository, issue_number, new_status, message, kw) ==
    LET key == AppKey(repository, issue_number)
        state == IF st[key] # Absent THEN st[key] ELSE NewAppState(repository, issue_number)
        old_status == state.status
        updated ==
            [state EXCEPT
                !.status = new_status,
                !.assigned_agent = IF "assigned_agent" \in kw.keys THEN kw.assigned_agent ELSE @,
                !.confidence_score =
                    IF "confidence_score" \in kw.keys THEN kw.confidence_score ELSE @,
                !.pr_number = IF "pr_number" \in kw.keys THEN kw.pr_number ELSE NoPR,
                !.branch_name = IF "branch_name" \in kw.keys THEN kw.branch_name ELSE "",
                !.error_message = IF "error_message" \in kw.keys THEN kw.error_message ELSE @,
                !.status_history =
                    Append(@, [from_status |-> old_status, to_status |-> new_status,
                               message |-> message])]
    IN  [st EXCEPT ![key] = updated]

\* update_status, lines 139-171: get or create the state, set the status and the
\* keyword fields, append the history entry, store the state
update_status(st, repository, issue_number, new_status, message, kw) ==
    LET key == AppKey(repository, issue_number)
        state == IF st[key] # Absent THEN st[key] ELSE NewAppState(repository, issue_number)
        old_status == state.status
        updated ==
            [state EXCEPT
                !.status = new_status,
                !.assigned_agent = IF "assigned_agent" \in kw.keys THEN kw.assigned_agent ELSE @,
                !.confidence_score =
                    IF "confidence_score" \in kw.keys THEN kw.confidence_score ELSE @,
                !.pr_number = IF "pr_number" \in kw.keys THEN kw.pr_number ELSE @,
                !.branch_name = IF "branch_name" \in kw.keys THEN kw.branch_name ELSE @,
                !.error_message = IF "error_message" \in kw.keys THEN kw.error_message ELSE @,
                !.status_history =
                    Append(@, [from_status |-> old_status, to_status |-> new_status,
                               message |-> message])]
    IN  [st EXCEPT ![key] = updated]

\* confidence of analyze_issue in hundredths
Confidences == {79, 80, 90}
\* the 0.8 of line 515, in hundredths
ApprovalThreshold == 80

auto_execute_above(confidence) == confidence > ApprovalThreshold

\* "auto_execute": confidence >= 0.8
auto_execute(confidence) == confidence >= ApprovalThreshold

\* what the POST of _post_github_comment does: answers 201, answers an error
\* status, or raises
PostResults == {"201", "error", "raises"}

post_github_comment_uncaught(result) ==
    IF result = "raises" THEN "raised" ELSE "returned"

\* _post_github_comment: the whole body is in try/except Exception, so the
\* coroutine returns whatever the POST does
post_github_comment(result) ==
    CASE result = "201"    -> "returned"
      [] result = "error"  -> "returned"
      [] result = "raises" -> "returned"

\* what update_status returns: True at line 178, False from its handler when
\* _post_github_comment raised; without a client ("none") nothing is posted
update_status_returns(result) ==
    result = "none" \/ post_github_comment(result) = "returned"

\* the GitHub requests update_status makes after storing the state: with a
\* client it posts the status comment, and nothing else (status_labels of line
\* 81 is read nowhere)
update_status_calls(has_client) ==
    IF has_client THEN <<"_post_github_comment">> ELSE <<>>
NoNotice ==
    [key |-> <<>>, to_status |-> "-", result |-> "-", reported |-> TRUE, calls |-> <<>>]
NoFault == [who |-> "-", key |-> <<>>, result |-> "-"]

\* what create_pull_request and merge_pull_request meet at GitHub
CollaboratorResults == {"ok", "refused", "raises"}

\* create_pull_request: None without a client, on a response other than 201 and
\* on any exception (caught at line 318); else the number GitHub answers with
create_pull_request(result) == IF result = "ok" THEN PRNumber ELSE NoPR

\* mutant: the merge is taken for done whatever GitHub answered
merge_pull_request_always(result) == TRUE

\* merge_pull_request: False without a client, on a refusal and on any exception
\* (caught at line 365)
merge_pull_request(result) == result = "ok"

NoRun == [pc |-> "none", repository |-> <<>>, issue_number |-> 0,
          auto_execute |-> FALSE, pr_number |-> NoPR]
DoneRun == [NoRun EXCEPT !.pc = "done"]

\* a record persisted by an earlier process: its history is a legal path from NEW
PathTo ==
    [s \in IssueStatus |->
        CASE s = "NEW"           -> <<>>
          [] s = "ANALYZING"     -> <<"ANALYZING">>
          [] s = "ANALYZED"      -> <<"ANALYZING", "ANALYZED">>
          [] s = "APPROVED"      -> <<"ANALYZING", "ANALYZED", "APPROVED">>
          [] s = "REVIEW_NEEDED" -> <<"ANALYZING", "ANALYZED", "REVIEW_NEEDED">>
          [] s = "IN_PROGRESS"   -> <<"ANALYZING", "ANALYZED", "APPROVED", "IN_PROGRESS">>
          [] s = "BLOCKED"       -> <<"ANALYZING", "ANALYZED", "APPROVED", "BLOCKED">>
          [] s = "COMPLETED"     ->
                <<"ANALYZING", "ANALYZED", "APPROVED", "IN_PROGRESS", "COMPLETED">>
          [] s = "MERGED"        ->
                <<"ANALYZING", "ANALYZED", "APPROVED", "IN_PROGRESS", "COMPLETED", "MERGED">>
          [] s = "CLOSED"        ->
                <<"ANALYZING", "ANALYZED", "APPROVED", "IN_PROGRESS", "COMPLETED", "CLOSED">>
          [] s = "REJECTED"      -> <<"REJECTED">>]

Persisted(repository, issue_number, s) ==
    LET p == PathTo[s]
    IN  [NewIssueState(repository, issue_number) EXCEPT
            !.status = s,
            !.status_history =
                [i \in 1..Len(p) |->
                    HistoryEntry(IF i = 1 THEN "NEW" ELSE p[i - 1], p[i], NoKw)]]

InitSM ==
    /\ \E s \in IssueStatus :
          files = [f \in StateFiles |->
                      IF s = "NEW" THEN NoFile
                      ELSE JsonFile(Persisted(RepoSlash, f[2], s))]
    /\ call = [c \in Callers |-> Idle]
    /\ ncalls = 0
    /\ outcome = NoOutcome
    /\ persisted = files
    /\ returned = [f \in StateFiles |->
                      IF files[f].kind = "json" THEN Len(files[f].data.status_history) ELSE 0]
    \* app-simple.py is not running
    /\ client = FALSE
    /\ states = [k \in AppKeys |-> Absent]
    /\ run = [d \in 1..MaxDeliveries |-> NoRun]
    /\ deliveries = 0
    /\ notice = NoNotice
    /\ fault = NoFault
    /\ probe = NoProbe
    /\ response = NoResponse
    /\ webhook_secret = NoSecret
    /\ background_tasks = <<>>
    /\ requests = 0
    /\ now = 0
    /\ disk = NoDisk
    /\ given = NoGiven
    /\ loaded = NoLoaded
    /\ labels = {}
    /\ labelled = NoLabelled

\* ----------------------------------------------------- transition_status
\* lines 244-268 up to the first suspension of save_state, run on the loaded
\* (or newly made) current_state
AfterLoad(c, new_status, kw, current_state) ==
    LET f == get_state_file(current_state.repository, current_state.issue_number)
    IN  IF ~is_valid_transition(current_state.status, new_status)
        THEN /\ Returns(c, "invalid", current_state.status, new_status)
             /\ UNCHANGED returned
        ELSE IF AppendRaises(kw)
        THEN /\ Returns(c, "exception", current_state.status, new_status)
             /\ UNCHANGED returned
        ELSE IF \/ AsdictRaises(kw)
                \/ ~HasValue(Transitioned(current_state, new_status, kw).status)
        THEN \* save_state returns False before opening the file; its result is ignored
             /\ Returns(c, "unsaved", current_state.status, new_status)
             /\ returned' = [returned EXCEPT ![f] = @ + 1]
        ELSE /\ call' = [call EXCEPT ![c] =
                    [Idle EXCEPT !.pc = "open",
                                 !.state = Transitioned(current_state, new_status, kw)]]
             /\ UNCHANGED <<returned, outcome>>

\* transition_status(repository, issue_number, new_status, **kwargs) is called:
\* load_state finds no file (os.path.exists) and the call goes on with a new
\* NEW state
StartCallNoFile(c, repository, issue_number, new_status, kw) ==
    /\ call[c].pc = "idle"
    /\ ncalls < MaxCalls
    /\ files[get_state_file(repository, issue_number)].kind = "none"
    /\ ncalls' = ncalls + 1
    /\ UNCHANGED <<files, persisted, appvars, auxvars>>
    /\ AfterLoad(c, new_status, kw, NewIssueState(repository, issue_number))

\* transition_status is called and load_state suspends opening the state file.
\* new_status and kwargs are first read at line 245: ReadFile draws them
StartCall(c, repository, issue_number) ==
    /\ call[c].pc = "idle"
    /\ ncalls < MaxCalls
    /\ files[get_state_file(repository, issue_number)].kind # "none"
    /\ ncalls' = ncalls + 1
    /\ call' = [call EXCEPT ![c] =
            [Idle EXCEPT !.pc = "read", !.repository = repository,
                         !.issue_number = issue_number]]
    /\ UNCHANGED <<files, returned, outcome, persisted, appvars, auxvars>>

\* load_state reads the file; json.loads of an empty file raises and load_state
\* returns None, which transition_status takes for a missing record
ReadFile(c, new_status, kw) ==
    /\ call[c].pc = "read"
    /\ UNCHANGED <<files, ncalls, persisted, appvars, auxvars>>
    /\ LET file == files[get_state_file(call[c].repository, call[c].issue_number)]
       IN  AfterLoad(c, new_status, kw,
                     IF file.kind = "json" THEN file.data
                     ELSE NewIssueState(call[c].repository, call[c].issue_number))

\* save_state: aiofiles.open(state_file, 'w') truncates the file; json.dumps runs
\* next and, when it raises, save_state returns False leaving the file empty
OpenFile(c) ==
    /\ call[c].pc = "open"
    /\ UNCHANGED <<ncalls, persisted, appvars, auxvars>>
    /\ LET f == get_state_file(call[c].state.repository, call[c].state.issue_number)
       IN  /\ files' = [files EXCEPT ![f] = EmptyFile]
           /\ IF DumpsRaises(call[c].state)
              THEN /\ Returns(c, "unsaved", LastEntry(call[c].state).from_status,
                              LastEntry(call[c].state).to_status)
                   /\ returned' = [returned EXCEPT ![f] = @ + 1]
              ELSE /\ call' = [call EXCEPT ![c].pc = "write"]
                   /\ UNCHANGED <<returned, outcome>>

\* save_state: the JSON reaches the file when the write is flushed at close;
\* transition_status returns current_state
WriteFile(c) ==
    /\ call[c].pc = "write"
    /\ UNCHANGED <<ncalls, appvars, auxvars>>
    /\ LET f == get_state_file(call[c].state.repository, call[c].state.issue_number)
       IN  /\ files' = [files EXCEPT ![f] = JsonFile(call[c].state)]
           /\ returned' = [returned EXCEPT ![f] = @ + 1]
    /\ persisted' = [persisted EXCEPT
            ![get_state_file(call[c].state.repository, call[c].state.issue_number)] =
                JsonFile(call[c].state)]
    /\ Returns(c, "saved", LastEntry(call[c].state).from_status,
               LastEntry(call[c].state).to_status)

\* GET /status/{repository}/{issue_number}: 404 when load_state returns None (no
\* file, or a file that holds no JSON), else the fields of the loaded record
get_status_endpoint(fs, repository, issue_number) ==
    LET file == fs[get_state_file(repository, issue_number)]
        request == [kind |-> "GET", repository |-> repository,
                    issue_number |-> issue_number]
    IN  IF file.kind = "json"
        THEN [request |-> request, code |-> 200, status |-> file.data.status,
              repository |-> file.data.repository,
              issue_number |-> file.data.issue_number]
        ELSE [NoResponse EXCEPT !.request = request, !.code = 404]

\* a GET /status request is answered
GetStatus(repository, issue_number) ==
    /\ requests < MaxCalls
    /\ requests' = requests + 1
    /\ response' = get_status_endpoint(files, repository, issue_number)
    /\ UNCHANGED <<smvars, appvars, probe, webhook_secret, background_tasks, storevars>>

NextSM ==
    \/ \E c \in Callers, r \in Repositories, n \in IssueNumbers,
          s \in IssueStatus, kw \in Kwargs : StartCallNoFile(c, r, n, s, kw)
    \/ \E c \in Callers, r \in Repositories, n \in IssueNumbers : StartCall(c, r, n)
    \/ \E c \in Callers, s \in IssueStatus, kw \in Kwargs : ReadFile(c, s, kw)
    \/ \E c \in Callers : OpenFile(c)
    \/ \E c \in Callers : WriteFile(c)

SpecSM == InitSM /\ [][NextSM]_vars

\* the status service with its read endpoint
NextStatus ==
    \/ NextSM
    \/ \E r \in Repositories, n \in IssueNumbers : GetStatus(r, n)

SpecStatus == InitSM /\ [][NextStatus]_vars

\* POST /status/update bodies that do not get as far as update_issue_status: a
\* required field is missing (or falsy), or status is the value of no member
\* ("ANALYZED" is a member's name, its value is "analyzed")
UpdateBody(repository, issue_number, status) ==
    [kind |-> "POST", repository |-> repository, issue_number |-> issue_number,
     status |-> status]
RefusedBodies ==
    {UpdateBody(<<>>, 1, "analyzed"), UpdateBody(RepoSlash, 0, "analyzed"),
     UpdateBody(RepoSlash, 1, ""), UpdateBody(RepoSlash, 1, "bogus"),
     UpdateBody(RepoSlash, 1, "ANALYZED")}
\* the checks of lines 345-351: the status code of the HTTPException they raise
\* (0 when they raise none)
update_body_raises(body) ==
    IF body.repository = <<>> \/ body.issue_number = 0 \/ body.status = ""
    THEN 400
    ELSE IF ~HasMember(body.status) THEN 400 ELSE 0
\* update_status_endpoint for such a body: the checks raise inside the try block
\* whose `except Exception` (line 362) catches HTTPException too and raises a
\* new one with status 500
update_status_endpoint(body) ==
    [NoResponse EXCEPT !.request = body,
                       !.code = IF update_body_raises(body) # 0 THEN 500 ELSE 0]

\* a POST /status/update request with such a body is answered
UpdateStatusRefused(body) ==
    /\ requests < MaxCalls
    /\ update_body_raises(body) # 0
    /\ requests' = requests + 1
    /\ response' = update_status_endpoint(body)
    /\ UNCHANGED <<smvars, appvars, probe, webhook_secret, background_tasks, storevars>>

\* the status service with bodies of every shape sent to its update endpoint
NextUpdate ==
    \/ NextSM
    \/ \E body \in RefusedBodies : UpdateStatusRefused(body)

SpecUpdate == InitSM /\ [][NextUpdate]_vars

\* ------------------------------------------------- _is_valid_transition
\* the validator on its own: a pair of statuses out of the twelve of the
\* lifecycle is given to it, next to a stored record
InitValidator ==
    /\ \E from_status \in AppIssueStatus, to_status \in AppIssueStatus :
          probe = [NoProbe EXCEPT !.from_status = from_status, !.to_status = to_status]
    /\ files = [f \in StateFiles |-> JsonFile(Persisted(RepoSlash, f[2], "ANALYZED"))]
    /\ call = [c \in Callers |-> Idle]
    /\ ncalls = 0
    /\ outcome = NoOutcome
    /\ persisted = files
    /\ returned = [f \in StateFiles |-> Len(files[f].data.status_history)]
    /\ client = FALSE
    /\ states = [k \in AppKeys |-> Absent]
    /\ run = [d \in 1..MaxDeliveries |-> NoRun]
    /\ deliveries = 0
    /\ notice = NoNotice
    /\ fault = NoFault
    /\ response = NoResponse
    /\ webhook_secret = NoSecret
    /\ background_tasks = <<>>
    /\ requests = 0
    /\ now = 0
    /\ disk = NoDisk
    /\ given = NoGiven
    /\ loaded = NoLoaded
    /\ labels = {}
    /\ labelled = NoLabelled

\* _is_valid_transition(from_status, to_status) is called and answers
Validate ==
    /\ ~probe.answered
    /\ probe' = [probe EXCEPT
            !.answered = TRUE,
            !.result = is_valid_transition(probe.from_status, probe.to_status)]
    /\ UNCHANGED <<smvars, appvars, response, webhook_secret, background_tasks, requests,
                   storevars>>

SpecValidator == InitValidator /\ [][Validate]_vars

\* ------------------------------------------- github-webhook-handler.py
\* --webhook-secret of main: not given (None) or a secret
Secrets == {NoSecret, "s1"}
\* request bodies: JSON of an issue event with its action, or no JSON at all
PayloadOpened == [json |-> TRUE, action |-> "opened"]
PayloadClosed == [json |-> TRUE, action |-> "closed"]
PayloadNoJson == [json |-> FALSE, action |-> "-"]
Payloads == {PayloadOpened, PayloadClosed, PayloadNoJson}
\* hmac.new(key, payload, hashlib.sha256).hexdigest(): two digests are equal
\* only for the same key and the same payload
hmac_sha256(key, payload) == [key |-> key, payload |-> payload]
\* values of the X-Hub-Signature-256 header: a prefix, a digest, and whether
\* all characters are ASCII (a hex digest is)
Signed(key, payload) ==
    [prefix |-> "sha256=", digest |-> hmac_sha256(key, payload), ascii |-> TRUE]
\* request.headers.get("X-Hub-Signature-256", ""): the header is missing
NoSignature == [prefix |-> "", digest |-> hmac_sha256("-", PayloadNoJson), ascii |-> TRUE]
Signatures ==
    {Signed(k, p) : k \in {"s1", "s2"}, p \in Payloads}
      \cup {[Signed(k, p) EXCEPT !.prefix = ""] : k \in {"s1"}, p \in Payloads}
      \cup {NoSignature, [NoSignature EXCEPT !.prefix = "sha256=", !.ascii = FALSE]}
EventTypes == {"issues", "ping", "push"}
\* hmac.compare_digest(a, b) on two str: TypeError when one holds a character
\* that is not ASCII
compare_digest(a, b) ==
    IF ~a.ascii \/ ~b.ascii THEN "TypeError" ELSE IF a = b THEN "True" ELSE "False"
\* GitHubWebhookHandler.verify_signature
verify_signature(secret, payload, signature) ==
    IF secret = NoSecret THEN "True"
    ELSE compare_digest(Signed(secret, payload), signature)
\* github_webhook of github-webhook-handler.py: the HTTP answer and whether
\* process_issue_event was handed to background_tasks
github_webhook(secret, payload, signature, event_type) ==
    LET verified == verify_signature(secret, payload, signature)
    IN  CASE verified = "TypeError" -> [code |-> 500, status |-> "error", task |-> FALSE]
          [] verified = "False"     -> [code |-> 403, status |-> "error", task |-> FALSE]
          [] verified = "True" /\ ~payload.json ->
                [code |-> 400, status |-> "error", task |-> FALSE]
          [] verified = "True" /\ payload.json /\ event_type = "issues" ->
                [code |-> 200, status |-> "accepted", task |-> TRUE]
          [] verified = "True" /\ payload.json /\ event_type = "ping" ->
                [code |-> 200, status |-> "pong", task |-> FALSE]
          [] OTHER -> [code |-> 200, status |-> "ignored", task |-> FALSE]

\* the handler as main configures it, no delivery received yet
InitHook ==
    /\ webhook_secret \in Secrets
    /\ background_tasks = <<>>
    /\ response = NoResponse
    /\ requests = 0
    /\ now = 0
    /\ disk = NoDisk
    /\ given = NoGiven
    /\ loaded = NoLoaded
    /\ labels = {}
    /\ labelled = NoLabelled
    /\ probe = NoProbe
    /\ files = [f \in StateFiles |-> NoFile]
    /\ call = [c \in Callers |-> Idle]
    /\ ncalls = 0
    /\ returned = [f \in StateFiles |-> 0]
    /\ outcome = NoOutcome
    /\ persisted = files
    /\ client = FALSE
    /\ states = [k \in AppKeys |-> Absent]
    /\ run = [d \in 1..MaxDeliveries |-> NoRun]
    /\ deliveries = 0
    /\ notice = NoNotice
    /\ fault = NoFault

\* POST /webhook/github is answered; a task handed to background_tasks waits
Deliver(payload, signature, event_type) ==
    /\ requests < MaxDeliveries
    /\ requests' = requests + 1
    /\ LET answer == github_webhook(webhook_secret, payload, signature, event_type)
       IN  /\ response' =
                [NoResponse EXCEPT
                    !.request = [kind |-> "POST", payload |-> payload,
                                 signature |-> signature, event_type |-> event_type],
                    !.code = answer.code, !.status = answer.status]
           /\ background_tasks' =
                IF answer.task
                THEN Append(background_tasks, [payload |-> payload, result |-> "waiting"])
                ELSE background_tasks
    /\ UNCHANGED <<smvars, appvars, probe, webhook_secret, storevars>>

\* process_issue_event runs as a background task: an action other than opened is
\* ignored; else execute_issue_automation runs the executor, and an exception
\* of it or of post_status_comment is caught and gives "error"
ProcessIssueEvent(i, automation) ==
    /\ i \in DOMAIN background_tasks
    /\ background_tasks[i].result = "waiting"
    /\ \A j \in 1..(i - 1) : background_tasks[j].result # "waiting"
    /\ background_tasks' = [background_tasks EXCEPT ![i].result =
            IF background_tasks[i].payload.action # "opened" THEN "ignored"
            ELSE automation]
    /\ UNCHANGED <<smvars, appvars, probe, response, webhook_secret, requests, storevars>>

NextHook ==
    \/ \E p \in Payloads, s \in Signatures, e \in EventTypes : Deliver(p, s, e)
    \/ \E i \in 1..MaxDeliveries, a \in {"processed", "error"} : ProcessIssueEvent(i, a)

SpecHook == InitHook /\ [][NextHook]_vars

\* ------------------------------------------------------- app-simple.py
InitApp ==
    /\ client \in BOOLEAN
    /\ states = [k \in AppKeys |-> Absent]
    /\ run = [d \in 1..MaxDeliveries |-> NoRun]
    /\ deliveries = 0
    /\ notice = NoNotice
    /\ fault = NoFault
    \* status-manager.py is not running
    /\ files = [f \in StateFiles |-> NoFile]
    /\ call = [c \in Callers |-> Idle]
    /\ ncalls = 0
    /\ returned = [f \in StateFiles |-> 0]
    /\ outcome = NoOutcome
    /\ persisted = files
    /\ probe = NoProbe
    /\ response = NoResponse
    /\ webhook_secret = NoSecret
    /\ background_tasks = <<>>
    /\ requests = 0
    /\ now = 0
    /\ disk = NoDisk
    /\ given = NoGiven
    /\ loaded = NoLoaded
    /\ labels = {}
    /\ labelled = NoLabelled

\* the process after one delivery that was ignored
InitRun ==
    /\ client \in BOOLEAN
    /\ states = [k \in AppKeys |-> Absent]
    /\ run = [d \in 1..MaxDeliveries |-> NoRun]
    /\ deliveries = 1
    /\ notice = NoNotice
    /\ fault = NoFault
    /\ files = [f \in StateFiles |-> NoFile]
    /\ call = [c \in Callers |-> Idle]
    /\ ncalls = 0
    /\ returned = [f \in StateFiles |-> 0]
    /\ outcome = NoOutcome
    /\ persisted = files
    /\ probe = NoProbe
    /\ response = NoResponse
    /\ webhook_secret = NoSecret
    /\ background_tasks = <<>>
    /\ requests = 0
    /\ now = 0
    /\ disk = NoDisk
    /\ given = NoGiven
    /\ loaded = NoLoaded
    /\ labels = {}
    /\ labelled = NoLabelled

\* the comment posts that an update_status call can meet
Posts == IF client THEN PostResults ELSE {"none"}

\* the latest update_status call: its key and status, what its comment post
\* met and what the call returned
Notified(r, to_status, post) ==
    notice' = [key |-> AppKey(r.repository, r.issue_number), to_status |-> to_status,
               result |-> post, reported |-> update_status_returns(post),
               calls |-> update_status_calls(client)]

\* github_webhook: an event that is not issues/opened is ignored
WebhookIgnored(event_type, action) ==
    /\ deliveries < MaxDeliveries
    /\ event_type # "issues" \/ action # "opened"
    /\ deliveries' = deliveries + 1
    /\ notice' = NoNotice
    /\ fault' = NoFault
    /\ UNCHANGED <<client, states, run, smvars, auxvars>>

\* github_webhook for issues/opened: update_status(NEW), then
\* background_tasks.add_task(process_issue_automation, payload)
Webhook(issue_number, post) ==
    /\ deliveries < MaxDeliveries
    /\ post \in Posts
    /\ deliveries' = deliveries + 1
    /\ states' = update_status(states, AppRepository, issue_number, "NEW", "received", AppNoKw)
    /\ run' = [run EXCEPT ![deliveries + 1] =
            [NoRun EXCEPT !.pc = "start", !.repository = AppRepository,
                          !.issue_number = issue_number]]
    /\ Notified([repository |-> AppRepository, issue_number |-> issue_number], "NEW", post)
    /\ fault' = NoFault
    /\ UNCHANGED <<client, smvars, auxvars>>

\* mutant: a run begins only when no other run is under way, whatever its key
StartRun_serialized(d, post) ==
    /\ run[d].pc = "start"
    /\ \A e \in DOMAIN run : run[e].pc \in {"none", "start", "done"}
    /\ post \in Posts
    /\ states' = update_status(states, run[d].repository, run[d].issue_number,
                               "ANALYZING", "analyzing", AppNoKw)
    /\ run' = [run EXCEPT ![d].pc = "analyze"]
    /\ Notified(run[d], "ANALYZING", post)
    /\ fault' = NoFault
    /\ UNCHANGED <<client, deliveries, smvars, auxvars>>

\* process_issue_automation, lines 656-665: update to ANALYZING, then sleep
StartRun(d, post) ==
    /\ run[d].pc = "start"
    /\ post \in Posts
    /\ states' = update_status(states, run[d].repository, run[d].issue_number,
                               "ANALYZING", "analyzing", AppNoKw)
    /\ run' = [run EXCEPT ![d].pc = "analyze"]
    /\ Notified(run[d], "ANALYZING", post)
    /\ fault' = NoFault
    /\ UNCHANGED <<client, deliveries, smvars, auxvars>>

\* lines 670-678 and 762-768: APPROVED when analysis['auto_execute'], else
\* REVIEW_NEEDED, which ends the run
Decided(st, r, approve) ==
    IF approve
    THEN update_status(st, r.repository, r.issue_number, "APPROVED", "approved",
                       [AppNoKw EXCEPT !.keys = {"branch_name"}, !.branch_name = "ai/issue"])
    ELSE update_status(st, r.repository, r.issue_number, "REVIEW_NEEDED", "review", AppNoKw)

AfterDecision_executes(r, approve) == [r EXCEPT !.pc = "execute", !.auto_execute = approve]

AfterDecision(r, approve) ==
    IF approve THEN [r EXCEPT !.pc = "execute", !.auto_execute = TRUE] ELSE DoneRun

\* analyze_issue raises (a null title or body): the handler at lines 772-782
\* updates to BLOCKED with the error message when it has an issue number
AnalyzeRaises(d, post) ==
    /\ run[d].pc = "analyze"
    /\ post \in Posts
    /\ IF run[d].issue_number # NoNumber
       THEN /\ states' = update_status(states, run[d].repository, run[d].issue_number,
                                       "BLOCKED", "blocked",
                                       [AppNoKw EXCEPT !.keys = {"error_message"},
                                                       !.error_message = "error"])
            /\ Notified(run[d], "BLOCKED", post)
       ELSE \* `if issue_number and repository` at line 775 is false
            /\ states' = states
            /\ notice' = NoNotice
    /\ run' = [run EXCEPT ![d] = DoneRun]
    /\ fault' = [who |-> "analyze_issue",
                 key |-> AppKey(run[d].repository, run[d].issue_number),
                 result |-> "raises"]
    /\ UNCHANGED <<client, deliveries, smvars, auxvars>>

\* analyze_issue, lines 495-517: update to ANALYZED with the analysis.  With a
\* client update_status suspends posting the comment; without one nothing
\* suspends before the sleep that follows the decision
Analyze(d, confidence, post) ==
    /\ run[d].pc = "analyze"
    /\ post \in Posts
    /\ LET analyzed ==
               update_status(states, run[d].repository, run[d].issue_number, "ANALYZED",
                             "analyzed",
                             [AppNoKw EXCEPT !.keys = {"assigned_agent", "confidence_score"},
                                             !.assigned_agent = "debugger",
                                             !.confidence_score = confidence])
           approve == auto_execute(confidence)
       IN  IF client
           THEN /\ states' = analyzed
                /\ run' = [run EXCEPT ![d].pc = "decide", ![d].auto_execute = approve]
                /\ Notified(run[d], "ANALYZED", post)
           ELSE /\ states' = Decided(analyzed, run[d], approve)
                /\ run' = [run EXCEPT ![d] = AfterDecision(run[d], approve)]
                /\ Notified(run[d], IF approve THEN "APPROVED" ELSE "REVIEW_NEEDED", post)
    /\ fault' = NoFault
    /\ UNCHANGED <<client, deliveries, smvars, auxvars>>

Decide(d, post) ==
    /\ run[d].pc = "decide"
    /\ post \in Posts
    /\ states' = Decided(states, run[d], run[d].auto_execute)
    /\ run' = [run EXCEPT ![d] = AfterDecision(run[d], run[d].auto_execute)]
    /\ Notified(run[d], IF run[d].auto_execute THEN "APPROVED" ELSE "REVIEW_NEEDED", post)
    /\ fault' = NoFault
    /\ UNCHANGED <<client, deliveries, smvars, auxvars>>

\* lines 683-691: update to IN_PROGRESS, then sleep
Execute(d, post) ==
    /\ run[d].pc = "execute"
    /\ post \in Posts
    /\ states' = update_status(states, run[d].repository, run[d].issue_number,
                               "IN_PROGRESS", "in progress", AppNoKw)
    /\ run' = [run EXCEPT ![d].pc = "create_pr"]
    /\ Notified(run[d], "IN_PROGRESS", post)
    /\ fault' = NoFault
    /\ UNCHANGED <<client, deliveries, smvars, auxvars>>

\* what a collaborator call can meet: without a client it returns at once
CreatePRResults == IF client THEN CollaboratorResults ELSE {"no_client"}

\* the step of a run in which collaborator who met result
Faulted(r, who, result) ==
    fault' = IF result = "raises"
             THEN [who |-> who, key |-> AppKey(r.repository, r.issue_number),
                   result |-> result]
             ELSE [NoFault EXCEPT !.result = result]

\* lines 693-713 and 744-750
CreatePR(d, result, post) ==
    /\ run[d].pc = "create_pr"
    /\ result \in CreatePRResults
    /\ post \in Posts
    /\ LET pr_number == create_pull_request(result)
       IN  IF pr_number # NoPR
           THEN /\ states' = update_status(states, run[d].repository, run[d].issue_number,
                                           "PR_CREATED", "pr created",
                                           [AppNoKw EXCEPT !.keys = {"pr_number"},
                                                           !.pr_number = pr_number])
                /\ run' = [run EXCEPT ![d].pc = "complete", ![d].pr_number = pr_number]
                /\ Notified(run[d], "PR_CREATED", post)
           ELSE /\ states' = update_status(states, run[d].repository, run[d].issue_number,
                                           "BLOCKED", "pr failed", AppNoKw)
                /\ run' = [run EXCEPT ![d] = DoneRun]
                /\ Notified(run[d], "BLOCKED", post)
    /\ Faulted(run[d], "create_pull_request", result)
    /\ UNCHANGED <<client, deliveries, smvars, auxvars>>

Complete_skipped(d, post) ==
    /\ run[d].pc = "complete"
    /\ post \in Posts
    /\ run' = [run EXCEPT ![d].pc = "merge"]
    /\ notice' = NoNotice
    /\ fault' = NoFault
    /\ UNCHANGED <<client, states, deliveries, smvars, auxvars>>

\* lines 714-723: update to COMPLETED, then sleep
Complete(d, post) ==
    /\ run[d].pc = "complete"
    /\ post \in Posts
    /\ states' = update_status(states, run[d].repository, run[d].issue_number, "COMPLETED",
                               "completed",
                               [AppNoKw EXCEPT !.keys = {"pr_number"},
                                               !.pr_number = run[d].pr_number])
    /\ run' = [run EXCEPT ![d].pc = "merge"]
    /\ Notified(run[d], "COMPLETED", post)
    /\ fault' = NoFault
    /\ UNCHANGED <<client, deliveries, smvars, auxvars>>

\* lines 725-743: merge_pull_request, then MERGED or BLOCKED
Merge(d, result, post) ==
    /\ run[d].pc = "merge"
    /\ result \in CreatePRResults
    /\ post \in Posts
    /\ LET merge_success == merge_pull_request(result)
           to_status == IF merge_success THEN "MERGED" ELSE "BLOCKED"
       IN  /\ states' = update_status(states, run[d].repository, run[d].issue_number,
                                      to_status,
                                      IF merge_success THEN "merged" ELSE "merge failed",
                                      [AppNoKw EXCEPT !.keys = {"pr_number"},
                                                      !.pr_number = run[d].pr_number])
           /\ Notified(run[d], to_status, post)
    /\ run' = [run EXCEPT ![d] = DoneRun]
    /\ Faulted(run[d], "merge_pull_request", result)
    /\ UNCHANGED <<client, deliveries, smvars, auxvars>>

AllPosts == PostResults \cup {"none"}
AllResults == CollaboratorResults \cup {"no_client"}

NextApp ==
    \/ \E e \in {"issues", "push"}, a \in {"opened", "closed"} : WebhookIgnored(e, a)
    \/ \E n \in AppIssueNumbers, p \in AllPosts : Webhook(n, p)
    \/ \E d \in DOMAIN run, p \in AllPosts : StartRun(d, p)
    \/ \E d \in DOMAIN run, p \in AllPosts : AnalyzeRaises(d, p)
    \/ \E d \in DOMAIN run, c \in Confidences, p \in AllPosts : Analyze(d, c, p)
    \/ \E d \in DOMAIN run, p \in AllPosts : Decide(d, p)
    \/ \E d \in DOMAIN run, p \in AllPosts : Execute(d, p)
    \/ \E d \in DOMAIN run, r \in AllResults, p \in AllPosts : CreatePR(d, r, p)
    \/ \E d \in DOMAIN run, p \in AllPosts : Complete(d, p)
    \/ \E d \in DOMAIN run, r \in AllResults, p \in AllPosts : Merge(d, r, p)

SpecApp == InitApp /\ [][NextApp]_vars

SpecRun == InitRun /\ [][NextApp]_vars

\* the next step of the run of delivery d
RunStep(d) ==
    \E p \in AllPosts, c \in Confidences, r \in AllResults :
        \/ StartRun(d, p)
        \/ AnalyzeRaises(d, p)
        \/ Analyze(d, c, p)
        \/ Decide(d, p)
        \/ Execute(d, p)
        \/ CreatePR(d, r, p)
        \/ Complete(d, p)
        \/ Merge(d, r, p)

\* github_webhook for an issues/opened payload without an issue number: line 623
\* skips the update to NEW, line 632 still adds process_issue_automation
WebhookIncomplete ==
    /\ deliveries < MaxDeliveries
    /\ deliveries' = deliveries + 1
    /\ run' = [run EXCEPT ![deliveries + 1] =
            [NoRun EXCEPT !.pc = "start", !.repository = AppRepository,
                          !.issue_number = NoNumber]]
    /\ notice' = NoNotice
    /\ fault' = NoFault
    /\ UNCHANGED <<client, states, smvars, auxvars>>

\* the process with payloads of every shape; a background task that can step
\* is run by the event loop in the end
NextIntake ==
    \/ NextApp
    \/ WebhookIncomplete

SpecIntake ==
    /\ InitRun
    /\ [][NextIntake]_vars
    /\ \A d \in 1..MaxDeliveries : WF_vars(RunStep(d))

\* ------------------------------------- the store on its own, with its clock
\* a record persisted by an earlier process at tick 1, or no file yet
StoredBefore(s) ==
    LET p == PathTo[s]
    IN  StoreState(s, 1, 1,
            [i \in 1..Len(p) |->
                [from_status |-> StatusValue[IF i = 1 THEN "NEW" ELSE p[i - 1]],
                 to_status |-> StatusValue[p[i]],
                 timestamp |-> 1,
                 details |-> StoreNoKw]])

InitStore ==
    /\ now = 1
    /\ \E s \in IssueStatus :
          IF s = "NEW"
          THEN disk = NoDisk /\ given = NoGiven
          ELSE /\ disk = save_state(NoDisk, StoredBefore(s)).file
               /\ given = [NoGiven EXCEPT !.called = TRUE, !.state = StoredBefore(s),
                                          !.saved = TRUE]
    /\ loaded = NoLoaded
    /\ labels = {}
    /\ labelled = NoLabelled
    /\ files = [f \in StateFiles |-> NoFile]
    /\ call = [c \in Callers |-> Idle]
    /\ ncalls = 0
    /\ outcome = NoOutcome
    /\ persisted = files
    /\ returned = [f \in StateFiles |-> 0]
    /\ client = FALSE
    /\ states = [k \in AppKeys |-> Absent]
    /\ run = [d \in 1..MaxDeliveries |-> NoRun]
    /\ deliveries = 0
    /\ notice = NoNotice
    /\ fault = NoFault
    /\ probe = NoProbe
    /\ response = NoResponse
    /\ webhook_secret = NoSecret
    /\ background_tasks = <<>>
    /\ requests = 0

\* time passes
Tick ==
    /\ now < MaxNow
    /\ now' = now + 1
    /\ UNCHANGED <<disk, given, loaded, labels, labelled>>
    /\ UNCHANGED <<smvars, appvars, probe, response, webhook_secret, background_tasks, requests>>

\* load_state(repository, issue_number) is called (by GET /status or by anyone)
LoadState ==
    /\ loaded' = load_state(disk, now)
    /\ given' = [given EXCEPT !.read = TRUE]
    /\ UNCHANGED <<now, disk, labels, labelled>>
    /\ UNCHANGED <<smvars, appvars, probe, response, webhook_secret, background_tasks, requests>>

\* one transition_status call that the validator accepts, from load to save,
\* with no other call in between
TransitionStatus(new_status, kw) ==
    /\ given.calls < MaxTransitions
    /\ LET found == load_state(disk, now)
           current_state == IF found.found THEN found.state
                            ELSE post_init(StoreState("NEW", NoTime, NoTime, <<>>), now)
           old_status == current_state.status
           updated ==
               [current_state EXCEPT
                   !.status = IF "status" \in kw.keys THEN "str:merged" ELSE new_status,
                   !.updated_at = now,
                   !.created_at = IF "created_at" \in kw.keys THEN NoTime ELSE @,
                   !.status_history =
                       Append(@, [from_status |-> StatusValue[old_status],
                                  to_status |-> StatusValue[new_status],
                                  timestamp |-> now,
                                  details |-> kw])]
           saving == save_state(disk, updated)
       IN  /\ is_valid_transition(old_status, new_status)
           /\ disk' = saving.file
           /\ given' = [called |-> TRUE, state |-> updated, saved |-> saving.ok,
                        read |-> FALSE, calls |-> given.calls + 1]
    /\ UNCHANGED <<now, loaded, labels, labelled>>
    /\ UNCHANGED <<smvars, appvars, probe, response, webhook_secret, background_tasks, requests>>

NextStore ==
    \/ Tick
    \/ LoadState
    \/ \E new_status \in IssueStatus, kw \in StoreKwargs : TransitionStatus(new_status, kw)

SpecStore == InitStore /\ [][NextStore]_vars

\* --------------------------------------------- the labels of one issue
InitLabels ==
    /\ \E others \in SUBSET {LabelBug}, old \in SUBSET {status_labels[s] : s \in {"NEW", "ANALYZING"}} :
          labels = others \cup old
    /\ labelled = NoLabelled
    /\ now = 0
    /\ disk = NoDisk
    /\ given = NoGiven
    /\ loaded = NoLoaded
    /\ files = [f \in StateFiles |-> NoFile]
    /\ call = [c \in Callers |-> Idle]
    /\ ncalls = 0
    /\ outcome = NoOutcome
    /\ persisted = files
    /\ returned = [f \in StateFiles |-> 0]
    /\ client = FALSE
    /\ states = [k \in AppKeys |-> Absent]
    /\ run = [d \in 1..MaxDeliveries |-> NoRun]
    /\ deliveries = 0
    /\ notice = NoNotice
    /\ fault = NoFault
    /\ probe = NoProbe
    /\ response = NoResponse
    /\ webhook_secret = NoSecret
    /\ background_tasks = <<>>
    /\ requests = 0

\* github_manager.update_issue_labels(repository, issue_number, new_status)
UpdateIssueLabels(new_status, get, delete, post) ==
    /\ labelled.calls < MaxCalls
    /\ LET done == update_issue_labels(labels, new_status, get, delete, post)
       IN  /\ labels' = done.labels
           /\ labelled' = [new_status |-> new_status, returned |-> done.returned,
                           calls |-> labelled.calls + 1]
    /\ UNCHANGED <<now, disk, given, loaded>>
    /\ UNCHANGED <<smvars, appvars, probe, response, webhook_secret, background_tasks, requests>>

NextLabels ==
    \E new_status \in IssueStatus, get \in HttpResults, delete \in HttpResults,
       post \in HttpResults :
        UpdateIssueLabels(new_status, get, delete, post)

SpecLabels == InitLabels /\ [][NextLabels]_vars

\* ------------------------------------------------- IssueStateManager claims
TerminalStatus == {"MERGED", "CLOSED", "REJECTED"}

\* the status a record had when it was last written; NEW before the first write
PersistedStatus(f) == IF persisted[f].kind = "json" THEN persisted[f].data.status ELSE "NEW"

PersistedHistory(f) ==
    IF persisted[f].kind = "json" THEN persisted[f].data.status_history ELSE <<>>

IsPrefix(s, t) == Len(s) <= Len(t) /\ \A i \in 1..Len(s) : s[i] = t[i]

\* the step writes a record to state file f
Writes(f) == files'[f].kind = "json" /\ files'[f] # files[f]

\* the step ends a call (a call on a missing file may start and end in one step)
ReturnStep ==
    \/ \E c \in Callers : call[c].pc # "idle" /\ call'[c].pc = "idle"
    \/ ncalls' # ncalls /\ call' = call

\* C1: every record that is written carries the status written before it or a
\* status the transition table lists for that status.
C1_StatusChangesAlongTable ==
    [][\A f \in StateFiles :
          Writes(f) =>
             \/ files'[f].data.status = PersistedStatus(f)
             \/ files'[f].data.status \in valid_transitions[PersistedStatus(f)]]_vars

\* C2: once the record in a state file has a terminal status, the file is never
\* changed again.
C2_TerminalIsFinal ==
    [][\A f \in StateFiles :
          (files[f].kind = "json" /\ files[f].data.status \in TerminalStatus)
             => files'[f] = files[f]]_vars

\* C7: a call that goes on to save found, at validation, the status that the
\* state file holds when the call starts to save: no other call has written
\* between its load and its save.
C7_SaveSeesWhatItValidated ==
    [][\A c \in Callers :
          (call[c].pc = "open" /\ call'[c].pc # "open"
             /\ files[get_state_file(call[c].state.repository,
                                     call[c].state.issue_number)].kind = "json")
          => LastEntry(call[c].state).from_status =
                files[get_state_file(call[c].state.repository,
                                     call[c].state.issue_number)].data.status]_vars

\* C8: a call whose (current status, requested status) pair is not in the table
\* never gets past validation, returns None, and the step that ends it changes
\* no state file (it creates none either) and counts as no success.
C8_RejectedLeavesRecord ==
    [][/\ \A c \in Callers :
             call'[c].pc \in {"open", "write"} =>
                LastEntry(call'[c].state).to_status
                   \in valid_transitions[LastEntry(call'[c].state).from_status]
       /\ (ReturnStep /\ ~outcome'.listed) =>
             /\ outcome'.how = "invalid"
             /\ files' = files
             /\ returned' = returned]_vars

\* a call on an existing record was rejected for a pair outside the table
C8_Witness ==
    /\ outcome.how = "invalid"
    /\ ~outcome.listed
    /\ \E f \in StateFiles : files[f].kind = "json" /\ files[f].data.status = "APPROVED"

\* C9: a stored record's history has one entry for each call that returned a
\* state, and its last entry leads to the stored status.
C9_HistoryCountsSuccesses ==
    \A f \in StateFiles :
        files[f].kind = "json" =>
           /\ Len(files[f].data.status_history) = returned[f]
           /\ (files[f].data.status_history # <<>> =>
                  LastEntry(files[f].data).to_status = files[f].data.status)

\* C10: the history of every record that is written extends the history written
\* before it.
C10_HistoryAppendOnly ==
    [][\A f \in StateFiles :
          Writes(f) => IsPrefix(PersistedHistory(f), files'[f].data.status_history)]_vars

\* C11: extra keyword fields set advisory fields only: every stored record keeps
\* the created_at it was made with, has the status that its last validated
\* transition wrote, and lies in the state file of its repository and number.
C11_ExtraSetsNoCoreField ==
    \A f \in StateFiles :
        files[f].kind = "json" =>
           /\ files[f].data.created_at = NewIssueState(<<>>, 0).created_at
           /\ get_state_file(files[f].data.repository, files[f].data.issue_number) = f
           /\ (files[f].data.status_history # <<>> =>
                  files[f].data.status = LastEntry(files[f].data).to_status)

\* C18: a stored record whose last transition left BLOCKED, without that
\* transition's own keywords setting error_message, has an empty error_message.
C18_LeavingBlockedClearsError ==
    \A f \in StateFiles :
        (/\ files[f].kind = "json"
         /\ files[f].data.status_history # <<>>
         /\ LastEntry(files[f].data).from_status = "BLOCKED"
         /\ "error_message" \notin LastEntry(files[f].data).details.keys)
        => files[f].data.error_message = ""

\* C20: a call whose load_state found a file that holds no readable record does
\* not go on to save a record made anew over it.
C20_LoadFailureIsNotMissing ==
    [][\A c \in Callers :
          (call[c].pc = "read"
             /\ files[get_state_file(call[c].repository, call[c].issue_number)].kind = "empty")
          => call'[c].pc # "open"]_vars

\* ------------------------------------------------------ orchestrator claims
\* the edges of the transition graph of the specification, section 4.1
SpecGraph ==
    [s \in AppIssueStatus |->
        CASE s = "NEW"           -> {"ANALYZING", "REJECTED"}
          [] s = "ANALYZING"     -> {"ANALYZED", "REJECTED"}
          [] s = "ANALYZED"      -> {"APPROVED", "REVIEW_NEEDED", "REJECTED"}
          [] s = "APPROVED"      -> {"IN_PROGRESS", "BLOCKED"}
          [] s = "IN_PROGRESS"   -> {"PR_CREATED", "COMPLETED", "BLOCKED", "REVIEW_NEEDED"}
          [] s = "PR_CREATED"    -> {"COMPLETED", "BLOCKED"}
          [] s = "BLOCKED"       -> {"IN_PROGRESS", "REVIEW_NEEDED", "REJECTED"}
          [] s = "REVIEW_NEEDED" -> {"APPROVED", "REJECTED", "IN_PROGRESS"}
          [] s = "COMPLETED"     -> {"MERGED", "CLOSED"}
          [] OTHER               -> {}]

\* the runs for a key that have begun and not ended
ActiveRuns(k) ==
    {d \in DOMAIN run :
        /\ run[d].pc \notin {"none", "start", "done"}
        /\ AppKey(run[d].repository, run[d].issue_number) = k}

\* C3: every entry of a record's history, but for the NEW -> NEW entry that
\* creates the record, goes along an edge of the specification's graph.
C3_UpdatesFollowGraph ==
    \A k \in AppKeys :
        \A i \in DOMAIN states[k].status_history :
            LET e == states[k].status_history[i]
            IN  \/ i = 1 /\ e.from_status = "NEW" /\ e.to_status = "NEW"
                \/ e.to_status \in SpecGraph[e.from_status]

\* C4: at most one run for a key is in flight (has begun and not ended).
C4_OneRunPerKey == \A k \in AppKeys : Cardinality(ActiveRuns(k)) <= 1

\* C5: a record's history holds each lifecycle step once: no two entries lead
\* to the same status.
C5_EachStepOnce ==
    \A k \in AppKeys :
        \A i, j \in DOMAIN states[k].status_history :
            i < j => states[k].status_history[i].to_status
                        # states[k].status_history[j].to_status

\* C6: an 'opened' delivery for a record that has moved past NEW changes neither
\* its status nor its history.
C6_RedeliveryIsNoOp ==
    [][\A k \in AppKeys :
          (deliveries' # deliveries /\ states[k] # Absent /\ states[k].status # "NEW")
             => /\ states'[k].status = states[k].status
                /\ states'[k].status_history = states[k].status_history]_vars

\* the statuses a record was given, in order
ToStatuses(state) ==
    [i \in DOMAIN state.status_history |-> state.status_history[i].to_status]

Has(k, status) ==
    \E i \in DOMAIN states[k].status_history :
        states[k].status_history[i].to_status = status

\* the runs for a key that are scheduled or begun and have not ended
InFlight(k) ==
    {d \in DOMAIN run :
        /\ run[d].pc \notin {"none", "done"}
        /\ AppKey(run[d].repository, run[d].issue_number) = k}

Finished(k) == InFlight(k) = {}

\* the key has had one 'opened' delivery, so one run
SingleRun(k) ==
    /\ states[k] # Absent
    /\ Cardinality({i \in DOMAIN states[k].status_history :
                       states[k].status_history[i].to_status = "NEW"}) = 1

FullPath ==
    <<"NEW", "ANALYZING", "ANALYZED", "APPROVED", "IN_PROGRESS", "PR_CREATED",
      "COMPLETED", "MERGED">>

ReviewPath == <<"NEW", "ANALYZING", "ANALYZED", "REVIEW_NEEDED">>

\* C12: the single run of an issue whose confidence is at least the threshold
\* and that met no failure (nothing made it BLOCKED) gives the record the
\* statuses NEW, ANALYZING, ANALYZED, APPROVED, IN_PROGRESS, PR_CREATED,
\* COMPLETED, MERGED in this order, and has given all of them when it ends.
C12_ApprovedRunReachesMerged ==
    \A k \in AppKeys :
        (/\ SingleRun(k)
         /\ ~Has(k, "BLOCKED")
         /\ (Has(k, "ANALYZED") => states[k].confidence_score >= ApprovalThreshold))
        => /\ IsPrefix(ToStatuses(states[k]), FullPath)
           /\ (Finished(k) => ToStatuses(states[k]) = FullPath)

\* a single run has ended at MERGED
C12_Witness ==
    \E k \in AppKeys :
        /\ SingleRun(k) /\ Finished(k)
        /\ states[k].status = "MERGED"
        /\ states[k].confidence_score >= ApprovalThreshold

\* C13: the single run of an issue whose confidence is below the threshold gives
\* the record NEW, ANALYZING, ANALYZED, REVIEW_NEEDED in this order and no other
\* status, never reaches PR creation or merge, and has given all four when it
\* ends.
C13_LowConfidenceStopsAtReview ==
    \A k \in AppKeys :
        (SingleRun(k) /\ Has(k, "ANALYZED")
            /\ states[k].confidence_score < ApprovalThreshold)
        => /\ IsPrefix(ToStatuses(states[k]), ReviewPath)
           /\ states[k].pr_number = NoPR
           /\ \A d \in InFlight(k) : run[d].pc = "decide"
           /\ (Finished(k) => ToStatuses(states[k]) = ReviewPath)

\* a single run with a confidence below the threshold has ended
C13_Witness ==
    \E k \in AppKeys :
        /\ SingleRun(k) /\ Finished(k)
        /\ states[k].status = "REVIEW_NEEDED"
        /\ states[k].confidence_score < ApprovalThreshold

\* C14: in a single run the status that follows ANALYZED is APPROVED exactly
\* when the confidence is at least the threshold and REVIEW_NEEDED otherwise;
\* the run gives one of the two and never both.
C14_ThresholdDecides ==
    \A k \in AppKeys :
        SingleRun(k) =>
           /\ \A i \in DOMAIN states[k].status_history :
                 LET e == states[k].status_history[i]
                 IN  e.to_status \in {"APPROVED", "REVIEW_NEEDED"} =>
                        /\ e.from_status = "ANALYZED"
                        /\ (e.to_status = "APPROVED"
                              <=> states[k].confidence_score >= ApprovalThreshold)
           /\ ~(Has(k, "APPROVED") /\ Has(k, "REVIEW_NEEDED"))
           /\ (Finished(k) /\ Has(k, "ANALYZED")
                 => Has(k, "APPROVED") \/ Has(k, "REVIEW_NEEDED"))

\* a run with a confidence of exactly the threshold was approved
C14_Witness ==
    \E k \in AppKeys :
        /\ SingleRun(k)
        /\ states[k].confidence_score = ApprovalThreshold
        /\ Has(k, "APPROVED")

\* C15: a record whose status is BLOCKED has a non-empty error_message.
C15_BlockedHasError ==
    \A k \in AppKeys : states[k].status = "BLOCKED" => states[k].error_message # ""

\* C16: no update changes a record's status from COMPLETED to BLOCKED.
C16_CompletedNeverBlocked ==
    [][\A k \in AppKeys :
          states[k].status = "COMPLETED" => states'[k].status # "BLOCKED"]_vars

\* C17: the step in which analysis, PR creation or merge raised leaves the
\* record BLOCKED, with the exception text as error_message and a history
\* entry for the move to BLOCKED.
C17_RaiseEndsBlockedWithError ==
    fault.who # "-" =>
       /\ states[fault.key].status = "BLOCKED"
       /\ LastEntry(states[fault.key]).to_status = "BLOCKED"
       /\ states[fault.key].error_message = "error"

C21_FailedSaveIsNotDone ==
    [][(ReturnStep /\ outcome'.how = "unsaved") =>
          /\ returned' = returned
          /\ ~outcome'.reported
          /\ outcome'.emitted = <<>>
          /\ files' = files]_vars

\* ------------------------------------------------------ the read endpoint

\* a record of the key (repository, issue_number) is stored
HasRecord(repository, issue_number) ==
    \E f \in StateFiles :
        /\ files[f].kind = "json"
        /\ files[f].data.repository = repository
        /\ files[f].data.issue_number = issue_number

\* C22: a GET /status for a key that has no stored record is answered 404, an
\* answer 200 carries the record of the key that was asked for, and the request
\* changes no state file.
C22_UnknownKeyIsNotFound ==
    [][requests' = requests + 1 =>
          /\ files' = files
          /\ ~HasRecord(response'.request.repository, response'.request.issue_number)
                => response'.code = 404
          /\ response'.code = 200 =>
                /\ response'.repository = response'.request.repository
                /\ response'.issue_number = response'.request.issue_number]_vars

\* ----------------------------------------------------------- state files

\* C23: the record a call loads for its key (repository, issue number) is a
\* record of that key, never the record of another key.
C23_KeysHaveOwnFiles ==
    [][\A c \in Callers :
          (call[c].pc = "read" /\ call'[c].pc = "open") =>
             /\ call'[c].state.repository = call[c].repository
             /\ call'[c].state.issue_number = call[c].issue_number]_vars

\* ------------------------------------------------------------ the validator

\* C24: for every ordered pair of the twelve statuses the validator answers True
\* exactly when the pair is an edge of the transition graph of the specification.
C24_TableIsTheGraph ==
    probe.answered =>
       (probe.result <=> probe.to_status \in SpecGraph[probe.from_status])

\* C25: the validator answers False for every pair of a status with itself and
\* for every pair whose from status is MERGED, CLOSED or REJECTED, and the call
\* changes no state file and no call in progress.
C25_NoSelfLoopNoWayOut ==
    [][(~probe.answered /\ probe'.answered) =>
          /\ (\/ probe'.from_status = probe'.to_status
              \/ probe'.from_status \in TerminalStatus) => ~probe'.result
          /\ files' = files
          /\ persisted' = persisted
          /\ call' = call]_vars

\* the validator was asked for MERGED -> IN_PROGRESS next to a stored record
C25_Witness ==
    /\ probe.answered
    /\ probe.from_status = "MERGED"
    /\ probe.to_status = "IN_PROGRESS"
    /\ ~probe.result
    /\ \E f \in StateFiles : files[f].kind = "json"

\* ------------------------------------------------- runs of different keys

\* C26: a run that has not ended can always take its next step, whatever the
\* runs of other keys are doing, and a step that changes the record of a key is
\* an update_status of that key: the records of all other keys stay as they are.
C26_KeysAreIndependent ==
    /\ [](\A d \in DOMAIN run : run[d].pc \notin {"none", "done"} => ENABLED RunStep(d))
    /\ [][\A k \in AppKeys : states'[k] # states[k] => notice'.key = k]_vars

\* the run of key 2 went through to MERGED while the run of key 1, delivered
\* before it, is still under way
C26_Witness ==
    /\ run[1].pc = "analyze"
    /\ run[1].issue_number = 1
    /\ run[2].pc = "done"
    /\ states[AppKey(AppRepository, 2)].status = "MERGED"
    /\ states[AppKey(AppRepository, 1)].status = "ANALYZING"

\* ------------------------------------------------------------ notifications

\* the number of requests of one kind that the latest update made
Calls(kind) == Cardinality({i \in DOMAIN notice.calls : notice.calls[i] = kind})

\* C27: with a client, the latest status update made one label request and
\* posted one status comment.
C27_UpdateSyncsLabelAndComments ==
    (client /\ notice.to_status # "-") =>
       /\ Calls("_sync_labels") = 1
       /\ Calls("_post_github_comment") = 1

\* ------------------------------------------------------ the webhook handler

\* the delivery that the step answers
Delivered == response'.request

\* C28: a delivery that is answered and is not an issues event with the action
\* opened is answered "ignored" and hands no task to background_tasks; no task
\* runs the automation for an event that was not opened.
C28_OnlyOpenedIssuesStart ==
    [][/\ (/\ requests' = requests + 1
           /\ response'.code = 200
           /\ ~(Delivered.event_type = "issues" /\ Delivered.payload.action = "opened")) =>
              /\ response'.status = "ignored"
              /\ background_tasks' = background_tasks
       /\ \A i \in DOMAIN background_tasks' :
             background_tasks'[i].result \in {"processed", "error"} =>
                background_tasks'[i].payload.action = "opened"]_vars

\* C29: with a secret configured, a delivery whose signature header is not
\* "sha256=" followed by the HMAC-SHA256 of its payload under the secret is
\* answered 403 and hands no task to background_tasks.
C29_BadSignatureIs403 ==
    [][(/\ requests' = requests + 1
        /\ webhook_secret # NoSecret
        /\ Delivered.signature # Signed(webhook_secret, Delivered.payload)) =>
           /\ response'.code = 403
           /\ background_tasks' = background_tasks]_vars

\* --------------------------------------------------------- history chain

\* C30: the history of every stored record is a chain: it begins at NEW, every
\* entry begins where the entry before it ended, and the last entry ends at the
\* record's status; this holds however the runs of one issue interleave.
C30_HistoryIsChain ==
    \A k \in AppKeys :
        states[k] # Absent =>
           LET h == states[k].status_history
           IN  /\ h # <<>>
               /\ h[1].from_status = "NEW"
               /\ \A i \in 2..Len(h) : h[i].from_status = h[i - 1].to_status
               /\ h[Len(h)].to_status = states[k].status

\* two runs of one issue interleaved: the first began, the issue was delivered
\* again, the first run stored its analysis and then the second run began
C30_Witness ==
    \E k \in AppKeys :
        /\ Cardinality(ActiveRuns(k)) = 2
        /\ ToStatuses(states[k]) = <<"NEW", "ANALYZING", "NEW", "ANALYZED", "ANALYZING">>

\* ------------------------------------------------------------ how runs end

\* the statuses a finished run leaves behind
FinalStatuses == {"REVIEW_NEEDED", "MERGED", "BLOCKED"}

\* C31: every run that was scheduled ends; the step that ends a run leaves the
\* record of its issue at REVIEW_NEEDED, MERGED or BLOCKED; and a record whose
\* runs have all ended has one of these three statuses.
C31_RunsEndInFinalStatus ==
    /\ \A d \in 1..MaxDeliveries : (run[d].pc = "start") ~> (run[d].pc = "done")
    /\ [][\A d \in DOMAIN run :
             (run[d].pc \notin {"none", "done"} /\ run'[d].pc = "done") =>
                states'[AppKey(run[d].repository, run[d].issue_number)].status
                   \in FinalStatuses]_vars
    /\ [](\A k \in AppKeys :
             (states[k] # Absent /\ Finished(k)) => states[k].status \in FinalStatuses)

\* --------------------------------------------------- pull request and merge

\* the key of the run of delivery d
RunKey(d) == AppKey(run[d].repository, run[d].issue_number)

\* C32: a run calls merge_pull_request only with the PR number that
\* create_pull_request returned and after COMPLETED was written; a run whose PR
\* creation gave no number ends without a merge; and MERGED is written only by
\* the step of a merge call that reported success.
C32_MergeAfterPRAndCompleted ==
    [][/\ \A d \in DOMAIN run :
             /\ (run[d].pc = "create_pr" /\ run'[d].pc # "create_pr") =>
                   IF fault'.result = "ok"
                   THEN run'[d].pc = "complete" /\ run'[d].pr_number = PRNumber
                   ELSE run'[d].pc = "done"
             /\ (run[d].pc # "merge" /\ run'[d].pc = "merge") =>
                   /\ run[d].pc = "complete"
                   /\ run'[d].pr_number # NoPR
                   /\ LastEntry(states'[RunKey(d)]).to_status = "COMPLETED"
             /\ (run[d].pc = "merge" /\ run'[d].pc # "merge") =>
                   /\ run[d].pr_number # NoPR
                   /\ Has(RunKey(d), "COMPLETED")
       /\ \A k \in AppKeys :
             (states'[k] # states[k] /\ states'[k].status = "MERGED") =>
                /\ fault'.result = "ok"
                /\ \E d \in DOMAIN run :
                      run[d].pc = "merge" /\ run'[d].pc = "done" /\ RunKey(d) = k]_vars

\* a merge call reported success and MERGED was written
C32_Witness ==
    /\ fault.result = "ok"
    /\ \E k \in AppKeys :
          /\ states[k].status = "MERGED"
          /\ states[k].pr_number = PRNumber
          /\ ToStatuses(states[k]) = FullPath

\* ------------------------------------------------- PR number and branch name

\* C33: a record whose status is PR_CREATED, COMPLETED or MERGED has its
\* pr_number set; a record whose status is IN_PROGRESS, or that has been
\* IN_PROGRESS, has its branch_name set; and no step empties a pr_number or a
\* branch_name that is set.
C33_PRNumberAndBranchKept ==
    /\ [](\A k \in AppKeys :
             states[k] # Absent =>
                /\ states[k].status \in {"PR_CREATED", "COMPLETED", "MERGED"} =>
                      states[k].pr_number # NoPR
                /\ (states[k].status = "IN_PROGRESS" \/ Has(k, "IN_PROGRESS")) =>
                      states[k].branch_name # "")
    /\ [][\A k \in AppKeys :
             states[k] # Absent =>
                /\ states[k].pr_number # NoPR =>
                      states'[k].pr_number # NoPR
                /\ states[k].branch_name # "" =>
                      states'[k].branch_name # ""]_vars

\* a record with PR number and branch name set has since been updated without
\* either keyword (BLOCKED after a refused merge passes pr_number only; NEW of a
\* second delivery passes neither)
C33_Witness ==
    \E k \in AppKeys :
        /\ states[k] # Absent
        /\ states[k].status = "BLOCKED"
        /\ Has(k, "COMPLETED")
        /\ states[k].pr_number = PRNumber
        /\ states[k].branch_name # ""

\* ------------------------------------------ update_issue_status: what it emits

\* C34: update_issue_status sends the label update and then the status comment,
\* and nothing else, only when transition_status accepted the transition (the
\* pair of the status the call found and the status asked for is in the table
\* and a state was returned); a call whose transition was rejected sends
\* neither and returns False.
C34_EmitsOnlyAfterAcceptedTransition ==
    [][ReturnStep =>
          /\ outcome'.emitted \in {<<>>, <<"update_issue_labels", "post_status_comment">>}
          /\ outcome'.emitted # <<>> =>
                /\ outcome'.listed
                /\ outcome'.how \in {"saved", "unsaved"}
                /\ outcome'.reported
          /\ (~outcome'.listed \/ outcome'.how = "invalid") =>
                /\ outcome'.emitted = <<>>
                /\ ~outcome'.reported]_vars

\* a call was rejected after an earlier call had been accepted and saved
C34_Witness ==
    /\ outcome.how = "invalid"
    /\ ~outcome.listed
    /\ outcome.emitted = <<>>
    /\ \E f \in StateFiles : files[f].kind = "json"

\* a call was accepted and label update and comment were sent in that order
C34_WitnessAccepted ==
    /\ outcome.how = "saved"
    /\ outcome.emitted = <<"update_issue_labels", "post_status_comment">>

\* ------------------------------------------------------ updated_at on reads

\* C35: a record that load_state returns reports the updated_at that the last
\* successful transition stored; a second read of the same file reports the same
\* updated_at as the first; and the reported updated_at never decreases.
C35_ReadsReportStoredUpdatedAt ==
    /\ [](given.read /\ given.saved /\ loaded.found =>
             loaded.state.updated_at = given.state.updated_at)
    /\ [][(loaded.found /\ loaded'.found) =>
             /\ loaded'.state.updated_at >= loaded.state.updated_at
             /\ (given.read /\ disk' = disk) =>
                   loaded'.state.updated_at = loaded.state.updated_at]_vars

\* ------------------------------------------------- save_state then load_state

\* C36: load_state after save_state returns the record that was saved, with the
\* same status, created_at and status_history, and the file holds the status as
\* the string of its enumeration member, which is read back to that member.
C36_SaveLoadRoundTrip ==
    (given.called /\ given.read) =>
        /\ loaded.found
        /\ given.state.status \in IssueStatus
        /\ loaded.state.status = given.state.status
        /\ loaded.state.created_at = given.state.created_at
        /\ loaded.state.status_history = given.state.status_history
        /\ disk.kind = "json"
        /\ disk.data.status = StatusValue[given.state.status]
        /\ IssueStatusOf(disk.data.status) = given.state.status

\* ------------------------------------------------------ AI status labels

\* C37: when update_issue_labels returned True the issue carries exactly one AI
\* status label, the label of the new status.
C37_TrueMeansOneStatusLabel ==
    labelled.returned =>
        {l \in labels : is_ai_label(l)} = {status_labels[labelled.new_status]}

\* ------------------------------------------------ payloads without a number

\* C38: an 'opened' payload without an issue number starts no run and creates
\* no record: no run works on the missing number and no record is stored under
\* the key of the missing number.
C38_IncompletePayloadStartsNothing ==
    /\ \A d \in DOMAIN run :
          run[d].pc \notin {"none", "done"} => run[d].issue_number # NoNumber
    /\ states[AppKey(AppRepository, NoNumber)] = Absent

\* ------------------------------------------------ POST /status/update: 400

\* C39: a POST /status/update whose body lacks a required field or names no
\* status is answered with 400 and leaves every state file as it was.
C39_BadUpdateIs400 ==
    [][(requests' # requests /\ response'.request.kind = "POST") =>
          /\ response'.code = 400
          /\ files' = files]_vars

====
